---- MODULE Spec2Model ----
(***************************************************************************)
(* Model of nfs3_tests_v2.py: the __main__ loop over STORAGE_CONFIG, the   *)
(* NFS3TestRunner.run_basic_tests battery, the NFS3Test mount session      *)
(* (mount / setup / teardown / unmount), the probes' result recording and  *)
(* the TextDocLogger record set.                                           *)
(*                                                                         *)
(* The operating system is the environment: every OS call the program      *)
(* makes (mount, umount, mkdir, file I/O of a probe, rm -rf) has its       *)
(* outcome drawn from a small set.  A non-nominal outcome is a fault; a    *)
(* run injects at most MaxFaults of them.                                  *)
(*                                                                         *)
(* Wall-clock timestamps of results and log entries, console output and    *)
(* the 'step' entries of the TextDocLogger (free documentation text) are   *)
(* not part of the state.                                                  *)
(***************************************************************************)
EXTENDS Integers, Sequences, FiniteSets, TLC

\* ------------------------------------------------------------------ bounds
MaxExports == 2     \* length of the STORAGE_CONFIG['nfs3_mounts'] lists explored
MaxFaults == 1      \* steps of one run that meet a non-nominal environment
NumWriters == 3     \* num_writers of test_concurrent_writers (32 in the program)
MaxResults == 10    \* records a summary is computed over, when drawn freely

\* ----------------------------------------------------------- configuration
\* mount_type values of the configuration table
MountTypes == {"rw", "ro"}

RECURSIVE SeqsUpTo(_, _)
SeqsUpTo(S, n) ==
    IF n = 0 THEN {<<>>}
    ELSE LET shorter == SeqsUpTo(S, n - 1)
         IN  shorter \cup {Append(s, x) : s \in shorter, x \in S}

\* the export lists the run may be configured with (one mount_type each);
\* the lists of a single export are those of ModeSpec
Configs == {c \in SeqsUpTo(MountTypes, MaxExports) : Len(c) = MaxExports}

VARIABLES
    config,         \* STORAGE_CONFIG['nfs3_mounts'], as the list of mount_type
    isRoot,         \* os.geteuid() == 0
    pc,             \* position of the main program
    sessions,       \* the NFS3Test objects created so far, in creation order
    next_case,      \* index in the battery of the next test case to call
    exc,            \* the exception propagating out of the battery, or "none"
    all_results,    \* NFS3TestRunner.all_results of the current runner
    text_logger,    \* the global text_logger is set (not None)
    log_entries,    \* TextDocLogger.log_entries
    summaries,      \* number of completed print_summary calls
    reportWritten,  \* generate_report has written test_reports/report.txt
    printed,        \* the lines of the last print_summary: counts and percentages
    report,         \* the TEST SUMMARY lines of the report written
    faults          \* environment faults injected so far

vars == <<config, isRoot, pc, sessions, next_case, exc, all_results,
          text_logger, log_entries, summaries, reportWritten, printed, report,
          faults>>

\* nothing printed or written yet
NoSummary == [total |-> 0, passed |-> 0, failed |-> 0, rate |-> "", failed_rate |-> ""]

\* the loop variable of `for mount_config in STORAGE_CONFIG['nfs3_mounts']`:
\* one NFS3Test is created per iteration
idx == Len(sessions)

\* ------------------------------------------------------ NFSMountOptions
\* An optional int is <<>> for None and <<n>> for the int n.  A mount option
\* is <<name>> for a flag and <<name, value>> for name=value; the options
\* string is the list of its options, which ','.join writes in that order.
IsSet(optional) == optional # <<>>

\* the truth value Python gives an optional int: None and 0 are false
Truthy(optional) == optional # <<>> /\ optional[1] # 0

\* the dataclass defaults with transport='tcp', as run_basic_tests builds it
DefaultMountOptions ==
    [transport |-> "tcp", rsize |-> 1048576, wsize |-> 1048576, timeo |-> 600,
     retrans |-> 2, soft |-> FALSE, intr |-> TRUE, noac |-> FALSE,
     actimeo |-> <<>>, acregmin |-> 3, acregmax |-> 60, acdirmin |-> 30,
     acdirmax |-> 60, nosharecache |-> FALSE, nordirplus |-> FALSE]

Option(name, value) == <<name, ToString(value)>>

\* `if self.noac: ... elif self.actimeo: ... else: ...`
AttributeCacheOptions(o) ==
    IF o.noac THEN << <<"noac">> >>
    ELSE IF Truthy(o.actimeo) THEN << Option("actimeo", o.actimeo[1]) >>
    ELSE << Option("acregmin", o.acregmin), Option("acregmax", o.acregmax),
            Option("acdirmin", o.acdirmin), Option("acdirmax", o.acdirmax) >>

\* NFSMountOptions.to_mount_string
ToMountString(o) ==
    << <<"vers", "3">>, <<"proto", o.transport>>, Option("rsize", o.rsize),
       Option("wsize", o.wsize), Option("timeo", o.timeo),
       Option("retrans", o.retrans) >>
    \o (IF o.soft THEN << <<"soft">> >> ELSE << <<"hard">> >>)
    \o (IF o.intr THEN << <<"intr">> >> ELSE <<>>)
    \o AttributeCacheOptions(o)
    \o (IF o.nosharecache THEN << <<"nosharecache">> >> ELSE <<>>)
    \o (IF o.nordirplus THEN << <<"nordirplus">> >> ELSE <<>>)

\* mount(): options = to_mount_string(); options += f',{self.mount_type}'
MountCommandOptions(o, mount_type) == Append(ToMountString(o), <<mount_type>>)

\* what the probes of a session met and left behind; nothing before they run
NoObservations ==
    [ writers |-> [pool |-> "none", ok |-> 0, started |-> 0, completed |-> 0,
                   joined |-> 0],
      idem    |-> [content |-> "none", delete2 |-> "none"],
      ro      |-> [write |-> "none", errno |-> 0],
      readback |-> [rw |-> "none", basic |-> "none", large |-> "none"],
      options_table   |-> [read |-> "none", entry |-> <<>>],
      transport_table |-> [read |-> "none", entry |-> <<>>],
      lock    |-> [worker |-> "none", child |-> "none", held |-> FALSE,
                   fd_open |-> FALSE, trace |-> <<>>] ]

\* NFS3Test.__init__, with the observations of the session's OS calls
NewSession(mount_type) ==
    [ mount_type  |-> mount_type,
      mount_point |-> "None",
      test_dir    |-> "None",
      results     |-> <<>>,
      \* observations
      mountCmds   |-> 0,        \* OS mount commands issued
      mountCmd    |-> "none",   \* outcome of the OS mount command
      tableCheck  |-> "none",   \* outcome of the mount-table lookup
      mountRet    |-> "none",   \* what mount() returned
      osMounted   |-> FALSE,    \* the export is mounted at the OS level
      umountCmds  |-> 0,        \* OS umount commands issued
      mkdirs      |-> 0,        \* os.makedirs(test_dir) calls of setup()
      setup       |-> "none",   \* "none" | "returned" | "raised"
      executed    |-> <<>>,     \* test cases called, in call order
      teardowns   |-> 0,        \* teardown() calls
      cleanup     |-> "none",   \* what the try block of teardown() met
      removals    |-> 0,        \* rm -rf commands issued by teardown()
      mount_options |-> DefaultMountOptions,
      options     |-> <<>>,     \* the -o argument of the mount command issued
      test_time   |-> 0,        \* int(time.time()) read by setup(), 0 before
      obs         |-> NoObservations ]

Cost(outcome, nominal) == IF outcome = nominal THEN 0 ELSE 1

Init ==
    /\ config \in Configs
    /\ isRoot \in BOOLEAN
    /\ pc = "start"
    /\ sessions = <<>>
    /\ next_case = 1
    /\ exc = "none"
    /\ all_results = <<>>
    /\ text_logger = FALSE
    /\ log_entries = <<>>
    /\ summaries = 0
    /\ reportWritten = FALSE
    /\ printed = NoSummary
    /\ report = NoSummary
    /\ faults = 0

\* ------------------------------------------------------------------- main
\* the privilege check and the creation of the TextDocLogger
CheckPrivilege ==
    /\ pc = "start"
    /\ IF ~isRoot
       THEN /\ pc' = "exit1"
            /\ UNCHANGED text_logger
       ELSE /\ pc' = "loop"
            /\ text_logger' = TRUE
    /\ UNCHANGED <<config, isRoot, sessions, next_case, exc, all_results,
                   log_entries, summaries, printed, reportWritten, report, faults>>

\* one iteration of the loop begins: a new runner and a new NFS3Test
NextExport ==
    /\ pc = "loop"
    /\ idx < Len(config)
    /\ sessions' = Append(sessions, NewSession(config[idx + 1]))
    /\ all_results' = <<>>
    /\ next_case' = 1
    /\ pc' = "setup_mount"
    /\ UNCHANGED <<config, isRoot, exc, text_logger, log_entries, summaries, printed,
                   reportWritten, report, faults>>

\* the loop is exhausted
LoopEnd ==
    /\ pc = "loop"
    /\ idx = Len(config)
    /\ pc' = "report"
    /\ UNCHANGED <<config, isRoot, sessions, next_case, exc, all_results,
                   text_logger, log_entries, summaries, printed, reportWritten, report, faults>>

\* ---------------------------------------------------------- mount session
\* what the environment can answer to the three OS calls of mount():
\* tempfile.mkdtemp, the `sudo mount` command (30 s timeout) and the `mount`
\* mount-table listing.  A call that is not reached is "none".
MountNominal == [mkdtemp |-> "ok", cmd |-> "rc0", table |-> "hit"]

MountEnv ==
    { MountNominal,
      [mkdtemp |-> "error", cmd |-> "none",       table |-> "none"],
      [mkdtemp |-> "ok",    cmd |-> "rc_nonzero", table |-> "none"],
      [mkdtemp |-> "ok",    cmd |-> "timeout",    table |-> "none"],
      [mkdtemp |-> "ok",    cmd |-> "rc0",        table |-> "miss"],
      [mkdtemp |-> "ok",    cmd |-> "rc0",        table |-> "error"] }

\* mount() as it would be without the mount-table verification
MountReturnsUnverified(env) == env.mkdtemp = "ok" /\ env.cmd = "rc0"

\* the value mount() returns: every exception is caught and gives False
MountReturns(env) ==
    IF env.mkdtemp # "ok" THEN FALSE
    ELSE IF env.cmd = "timeout" THEN FALSE
    ELSE IF env.cmd # "rc0" THEN FALSE
    ELSE IF env.table = "error" THEN FALSE
    ELSE env.table = "hit"

\* NFS3Test.mount on session s
Mount(s, env) ==
    [s EXCEPT !.mount_point = IF env.mkdtemp = "ok" THEN "mount_point" ELSE @,
              !.mountCmds   = IF env.cmd # "none" THEN @ + 1 ELSE @,
              !.mountCmd    = env.cmd,
              !.options     = IF env.cmd # "none"
                              THEN MountCommandOptions(s.mount_options, s.mount_type)
                              ELSE @,
              !.tableCheck  = env.table,
              !.osMounted   = (env.cmd = "rc0"),
              !.mountRet    = IF MountReturns(env) THEN "True" ELSE "False"]

UmountEnv == {"ok", "failed", "timeout"}

\* NFS3Test.unmount on session s: no mount point, no command; the outcome of
\* the umount command is ignored and its exceptions are caught
Unmount(s, outcome) ==
    IF s.mount_point = "None" THEN s
    ELSE [s EXCEPT !.umountCmds = @ + 1,
                   !.osMounted  = IF outcome = "ok" THEN FALSE ELSE @]

\* setup() as it would be without the raise after a failed mount()
AfterMountFailureIgnored == "setup_dir"

\* where control goes when mount() returned False: setup() raises
AfterMountFailure == "crashed"

\* setup(): `if not self.mount(): raise Exception(...)`.  run_basic_tests
\* calls setup() outside its try block and the main loop catches nothing, so
\* the exception ends the process.
SetupMount ==
    /\ pc = "setup_mount"
    /\ \E env \in MountEnv :
        /\ faults + Cost(env, MountNominal) <= MaxFaults
        /\ faults' = faults + Cost(env, MountNominal)
        /\ LET s == Mount(sessions[idx], env) IN
           IF s.mountRet = "True"
           THEN /\ sessions' = [sessions EXCEPT ![idx] = s]
                /\ pc' = "setup_dir"
                /\ exc' = exc
           ELSE /\ sessions' = [sessions EXCEPT ![idx] = [s EXCEPT !.setup = "raised"]]
                /\ pc' = AfterMountFailure
                /\ exc' = "Failed to mount NFS export"
    /\ UNCHANGED <<config, isRoot, next_case, all_results, text_logger,
                   log_entries, summaries, printed, reportWritten, report>>

\* setup() on a read-only mount: the mount point itself is the test directory
ProvisionReadOnly ==
    /\ pc = "setup_dir"
    /\ sessions[idx].mount_type = "ro"
    /\ sessions' = [sessions EXCEPT ![idx].test_dir = "mount_point",
                                    ![idx].setup = "returned"]
    /\ pc' = "battery"
    /\ UNCHANGED <<config, isRoot, next_case, exc, all_results, text_logger,
                   log_entries, summaries, printed, reportWritten, report, faults>>

\* time.time() is the wall clock, in whole seconds here.  Every session
\* before this one lasted a second or more (unmount() sleeps one second), so
\* the clock of a system whose time is not set back reads a later second at
\* each setup(): the number of the session stands for it.  A clock that was
\* set back between two sessions reads a second that has been read before.
ClockNominal == idx

ClockReadings == 1..idx

\* test_id = f"test_{int(time.time())}_{os.getpid()}": the process is the
\* same for all sessions of a run
TestId(s) == <<s.test_time, "pid">>

\* setup() otherwise: os.makedirs(test_dir) succeeds
ProvisionDirectory ==
    /\ pc = "setup_dir"
    /\ sessions[idx].mount_type # "ro"
    /\ \E now \in ClockReadings :
        /\ faults + Cost(now, ClockNominal) <= MaxFaults
        /\ faults' = faults + Cost(now, ClockNominal)
        /\ sessions' = [sessions EXCEPT ![idx].test_dir = "test_dir",
                                        ![idx].test_time = now,
                                        ![idx].mkdirs = @ + 1,
                                        ![idx].setup = "returned"]
    /\ pc' = "battery"
    /\ UNCHANGED <<config, isRoot, next_case, exc, all_results, text_logger,
                   log_entries, summaries, printed, reportWritten, report>>

\* the handler of setup() as it would be without its self.unmount() call
ProvisionFailsNoUnmount ==
    /\ pc = "setup_dir"
    /\ sessions[idx].mount_type # "ro"
    /\ faults < MaxFaults
    /\ faults' = faults + 1
    /\ sessions' = [sessions EXCEPT ![idx].test_dir = "test_dir",
                                    ![idx].test_time = ClockNominal,
                                    ![idx].mkdirs = @ + 1,
                                    ![idx].setup = "raised"]
    /\ pc' = "crashed"
    /\ exc' = "Failed to create test directory"
    /\ UNCHANGED <<config, isRoot, next_case, all_results, text_logger,
                   log_entries, summaries, printed, reportWritten, report>>

\* setup() otherwise: os.makedirs(test_dir) raises OSError; the handler runs
ProvisionFails ==
    /\ pc = "setup_dir"
    /\ sessions[idx].mount_type # "ro"
    /\ faults < MaxFaults
    /\ faults' = faults + 1
    /\ sessions' = [sessions EXCEPT ![idx].test_dir = "test_dir",
                                    ![idx].test_time = ClockNominal,
                                    ![idx].mkdirs = @ + 1]
    /\ pc' = "setup_unmount"
    /\ UNCHANGED <<config, isRoot, next_case, exc, all_results, text_logger,
                   log_entries, summaries, printed, reportWritten, report>>

\* a KeyboardInterrupt (operator abort) delivered while setup() provisions
\* the working directory, after mount() returned True: it is no OSError, so
\* the handler of setup() does not run, and setup() is outside the try block
\* of run_basic_tests: the exception ends the process
InterruptSetup ==
    /\ pc = "setup_dir"
    /\ faults < MaxFaults
    /\ faults' = faults + 1
    /\ sessions' = [sessions EXCEPT ![idx].setup = "raised"]
    /\ pc' = "crashed"
    /\ exc' = "KeyboardInterrupt"
    /\ UNCHANGED <<config, isRoot, next_case, all_results, text_logger,
                   log_entries, summaries, printed, reportWritten, report>>

\* the handler of setup() as it would be with setup() called inside the try
\* block of run_basic_tests: the finally clause tears the session down again
SetupUnmountThenTeardown ==
    /\ pc = "setup_unmount"
    /\ \E outcome \in UmountEnv :
        /\ faults + Cost(outcome, "ok") <= MaxFaults
        /\ faults' = faults + Cost(outcome, "ok")
        /\ sessions' = [sessions EXCEPT ![idx] =
                            [Unmount(@, outcome) EXCEPT !.setup = "raised"]]
    /\ pc' = "teardown"
    /\ exc' = "Failed to create test directory"
    /\ UNCHANGED <<config, isRoot, next_case, all_results, text_logger,
                   log_entries, summaries, printed, reportWritten, report>>

\* the handler of setup(): self.unmount(), then raise; the exception ends the
\* process as in SetupMount
SetupUnmount ==
    /\ pc = "setup_unmount"
    /\ \E outcome \in UmountEnv :
        /\ faults + Cost(outcome, "ok") <= MaxFaults
        /\ faults' = faults + Cost(outcome, "ok")
        /\ sessions' = [sessions EXCEPT ![idx] =
                            [Unmount(@, outcome) EXCEPT !.setup = "raised"]]
    /\ pc' = "crashed"
    /\ exc' = "Failed to create test directory"
    /\ UNCHANGED <<config, isRoot, next_case, all_results, text_logger,
                   log_entries, summaries, printed, reportWritten, report>>

\* ------------------------------------------------------------ the battery
\* the calls of the try block of run_basic_tests, in program order
CommonCases == << "test_mount_options_verification", "test_transport_protocol" >>

\* the read-write calls with two of them exchanged
ReadWriteCasesReordered ==
    << "test_basic_file_operations", "test_readwrite_mount_enforcement",
       "test_idempotent_operations", "test_close_to_open_consistency",
       "test_nlm_basic_locking", "test_small_file_performance",
       "test_concurrent_writers", "test_large_file_sequential_io" >>

ReadWriteCases ==
    << "test_readwrite_mount_enforcement", "test_basic_file_operations",
       "test_idempotent_operations", "test_close_to_open_consistency",
       "test_nlm_basic_locking", "test_small_file_performance",
       "test_concurrent_writers", "test_large_file_sequential_io" >>

ReadOnlyCases ==
    << "test_readonly_mount_enforcement", "test_readonly_mount_read_operations" >>

\* the battery as it would be without the test on mount_type
BatteryOfEveryMode(mount_type) == CommonCases \o ReadWriteCases

\* `if mount_type == 'rw': ... else: ...`
Battery(mount_type) ==
    CommonCases \o (IF mount_type = "rw" THEN ReadWriteCases ELSE ReadOnlyCases)

\* the call the battery is about to make
CurrentCase == Battery(sessions[idx].mount_type)[next_case]

\* run_basic_tests as it would be without the teardown() call after the
\* last test case
AfterCaseNoTeardown ==
    IF next_case = Len(Battery(sessions[idx].mount_type))
    THEN "extend" ELSE "battery"

\* where control goes when a test case returns: the next call, or the
\* finally clause after the last one
AfterCase ==
    IF next_case = Len(Battery(sessions[idx].mount_type))
    THEN "teardown" ELSE "battery"

\* run_basic_tests as it would be without try/finally around the battery
OnEscapeNoFinally == "crashed"

\* where control goes when an exception leaves a test case: no handler in
\* run_basic_tests, the finally clause runs and the exception propagates
OnEscape == "teardown"

\* NFS3Test.log_result: the record appended to self.results
Result(test_name, passed, message) ==
    [test |-> test_name, passed |-> passed, message |-> message,
     transport |-> "tcp"]

\* TextDocLogger.log_test_start, called when text_logger is set
LogTestStart(entries, test_name) ==
    IF text_logger
    THEN Append(entries, [type |-> "test_start", test_name |-> test_name])
    ELSE entries

\* log_test_result as it would be if it kept only the latest result
LogTestResultOverwriting(entries, r) ==
    IF text_logger
    THEN <<[type |-> "test_result", test_name |-> r.test,
            passed |-> r.passed, message |-> r.message]>>
    ELSE entries

\* TextDocLogger.log_test_result, called by log_result when text_logger is set
LogTestResult(entries, r) ==
    IF text_logger
    THEN Append(entries, [type |-> "test_result", test_name |-> r.test,
                          passed |-> r.passed, message |-> r.message])
    ELSE entries

\* a test case whose handler would record a failure after the result of its
\* try block was recorded already
ReturnsWithSecondResult(case, start, r) ==
    /\ sessions' = [sessions EXCEPT ![idx].executed = Append(@, case),
                                    ![idx].results = Append(Append(@, r), r)]
    /\ log_entries' = LogTestResult(
                          IF start = "" THEN log_entries
                          ELSE LogTestStart(log_entries, start), r)
    /\ next_case' = next_case + 1
    /\ pc' = AfterCase
    /\ exc' = exc

\* a test case that is called, records r through log_result and returns;
\* start is the name it gives log_test_start, "" when it does not call it
ReturnsWith(case, start, r) ==
    /\ sessions' = [sessions EXCEPT ![idx].executed = Append(@, case),
                                    ![idx].results = Append(@, r)]
    /\ log_entries' = LogTestResult(
                          IF start = "" THEN log_entries
                          ELSE LogTestStart(log_entries, start), r)
    /\ next_case' = next_case + 1
    /\ pc' = AfterCase
    /\ exc' = exc

\* the same, with the observations o of the test case kept in the session
ReturnsObserved(case, start, r, o) ==
    /\ sessions' = [sessions EXCEPT ![idx].executed = Append(@, case),
                                    ![idx].results = Append(@, r),
                                    ![idx].obs = o]
    /\ log_entries' = LogTestResult(
                          IF start = "" THEN log_entries
                          ELSE LogTestStart(log_entries, start), r)
    /\ next_case' = next_case + 1
    /\ pc' = AfterCase
    /\ exc' = exc

\* a test case that is called and lets the exception e escape
EscapesWith(case, start, e) ==
    /\ sessions' = [sessions EXCEPT ![idx].executed = Append(@, case)]
    /\ log_entries' = IF start = "" THEN log_entries
                      ELSE LogTestStart(log_entries, start)
    /\ next_case' = next_case
    /\ pc' = OnEscape
    /\ exc' = e

\* The line of /proc/mounts for the mount point.  Its fourth field holds the
\* options the kernel uses: the NFS version, the transport of NFS (proto) and
\* the transport of the MOUNT protocol (mountproto), after the mount mode.
TableEntryNominal == [vers |-> "3", proto |-> "tcp", mountproto |-> "tcp"]

\* the entries a probe may find: the mount as requested, and the mounts that
\* differ from it in the version, in both transports, or in the transport of
\* NFS alone
TableEntries ==
    { TableEntryNominal,
      [TableEntryNominal EXCEPT !.vers = "4"],
      [TableEntryNominal EXCEPT !.proto = "udp", !.mountproto = "udp"],
      [TableEntryNominal EXCEPT !.proto = "udp"] }

EntryOptions(e, mount_type) ==
    << <<mount_type>>, <<"vers", e.vers>>, <<"proto", e.proto>>,
       <<"mountproto", e.mountproto>> >>

\* what a read of /proc/mounts gives a probe: an error, no line with the
\* mount point, a line of fewer than four fields, or a line with options
TableReads ==
    {[read |-> r, entry |-> TableEntryNominal] : r \in {"error", "missing", "short"}}
    \cup {[read |-> "found", entry |-> e] : e \in TableEntries}

TableReadNominal == [read |-> "found", entry |-> TableEntryNominal]

\* `needle in text` for the needle name=value and the text of an options
\* list: the text of an option holds it when the option has that value and
\* its name ends with the needle's name, as mountproto ends with proto
NamesEndingWith(name) ==
    CASE name = "proto" -> {"proto", "mountproto"}
      [] name = "vers" -> {"vers", "nfsvers", "mountvers"}
      [] OTHER -> {name}

TextHasOption(opts, name, value) ==
    \E k \in 1..Len(opts) :
        /\ Len(opts[k]) = 2
        /\ opts[k][1] \in NamesEndingWith(name)
        /\ opts[k][2] = value

\* `',tcp' in line`: an option that is the bare word, after another option
TextHasFlag(opts, flag) ==
    \E k \in 2..Len(opts) : opts[k][1] = flag

\* test_mount_options_verification: reads /proc/mounts and looks for the
\* line of the mount point; the version and the transport found in its
\* options are logged, and the result is recorded whatever they are
MountOptionsVerificationEnv ==
    {env \in TableReads : env.entry.mountproto = "tcp"}

MountOptionsVerificationResult(env) ==
    CASE env.read = "found" -> Result("mount_options_verification", TRUE, "")
      [] env.read = "missing" ->
             Result("mount_options_verification", FALSE, "Mount not found in /proc/mounts")
      [] env.read = "short" ->
             Result("mount_options_verification", FALSE, "Could not parse mount options")
      [] env.read = "error" -> Result("mount_options_verification", FALSE, "io_error")

TestMountOptionsVerification ==
    /\ pc = "battery"
    /\ CurrentCase = "test_mount_options_verification"
    /\ \E env \in MountOptionsVerificationEnv :
        /\ faults + Cost(env, TableReadNominal) <= MaxFaults
        /\ faults' = faults + Cost(env, TableReadNominal)
        /\ ReturnsObserved("test_mount_options_verification",
                           "test_mount_options_verification",
                           MountOptionsVerificationResult(env),
                           [sessions[idx].obs EXCEPT !.options_table = env])
    /\ UNCHANGED <<config, isRoot, all_results, text_logger, summaries, printed,
                   reportWritten, report>>

\* test_transport_protocol: looks for the requested transport in every line
\* of /proc/mounts that holds the mount point
TransportProtocolEnv ==
    {env \in TableReads : env.read # "short" /\ env.entry.vers = "3"}

\* 'proto=tcp' in line or ',tcp' in line (udp likewise)
TransportSeen(opts, transport) ==
    TextHasOption(opts, "proto", transport) \/ TextHasFlag(opts, transport)

TransportProtocolResult(env, s) ==
    CASE env.read = "error" -> Result("transport_protocol", FALSE, "io_error")
      [] env.read = "found"
         /\ s.mount_options.transport \in {"tcp", "udp"}
         /\ TransportSeen(EntryOptions(env.entry, s.mount_type),
                          s.mount_options.transport) ->
             Result("transport_protocol", TRUE,
                    IF s.mount_options.transport = "tcp"
                    THEN "Using TCP as expected" ELSE "Using UDP as expected")
      [] OTHER ->
             Result("transport_protocol", FALSE, "Could not verify transport protocol")

TestTransportProtocol ==
    /\ pc = "battery"
    /\ CurrentCase = "test_transport_protocol"
    /\ \E env \in TransportProtocolEnv :
        /\ faults + Cost(env, TableReadNominal) <= MaxFaults
        /\ faults' = faults + Cost(env, TableReadNominal)
        /\ ReturnsObserved("test_transport_protocol", "transport_protocol",
                           TransportProtocolResult(env, sessions[idx]),
                           [sessions[idx].obs EXCEPT !.transport_table = env])
    /\ UNCHANGED <<config, isRoot, all_results, text_logger, summaries, printed,
                   reportWritten, report>>

\* what the read of a small payload returned, by the outcome of the probe:
\* the payload written, something else (the assertion fails), or nothing
SmallReadback(env) ==
    CASE env = "ok" -> "same"
      [] env = "assertion" -> "differs"
      [] env = "io_error" -> "none"

\* test_readwrite_mount_enforcement: write, read back, assert equality, remove (no log_test_start call)
ReadwriteMountEnforcementEnv == {"ok", "assertion", "io_error"}

ReadwriteMountEnforcementResult(env) ==
    CASE env = "ok" -> Result("readwrite_mount_enforcement", TRUE, "")
      [] env = "assertion" -> Result("readwrite_mount_enforcement", FALSE, "")
      [] env = "io_error" -> Result("readwrite_mount_enforcement", FALSE, "io_error")

TestReadwriteMountEnforcement ==
    /\ pc = "battery"
    /\ CurrentCase = "test_readwrite_mount_enforcement"
    /\ \E env \in ReadwriteMountEnforcementEnv :
        /\ faults + Cost(env, "ok") <= MaxFaults
        /\ faults' = faults + Cost(env, "ok")
        /\ ReturnsObserved("test_readwrite_mount_enforcement", "",
                           ReadwriteMountEnforcementResult(env),
                           [sessions[idx].obs EXCEPT !.readback.rw = SmallReadback(env)])
    /\ UNCHANGED <<config, isRoot, all_results, text_logger, summaries, printed,
                   reportWritten, report>>

\* test_basic_file_operations: create, read back, assert equality, delete
BasicFileOperationsEnv == {"ok", "assertion", "io_error"}

BasicFileOperationsResult(env) ==
    CASE env = "ok" -> Result("basic_file_operations", TRUE, "")
      [] env = "assertion" -> Result("basic_file_operations", FALSE, "")
      [] env = "io_error" -> Result("basic_file_operations", FALSE, "io_error")

TestBasicFileOperations ==
    /\ pc = "battery"
    /\ CurrentCase = "test_basic_file_operations"
    /\ \E env \in BasicFileOperationsEnv :
        /\ faults + Cost(env, "ok") <= MaxFaults
        /\ faults' = faults + Cost(env, "ok")
        /\ ReturnsObserved("test_basic_file_operations", "basic_file_operations",
                           BasicFileOperationsResult(env),
                           [sessions[idx].obs EXCEPT !.readback.basic = SmallReadback(env)])
    /\ UNCHANGED <<config, isRoot, all_results, text_logger, summaries, printed,
                   reportWritten, report>>

\* test_idempotent_operations: three overwrites, content check, two deletes.
\* Text is a sequence of pieces; f"Iteration {i}" is the piece "Iteration "
\* followed by the digit.
MaxContent == 3     \* pieces of the content read back

IterationPayload(i) == <<"Iteration ", ToString(i)>>

LastPayload == IterationPayload(2)

ContentPieces == {"Iteration ", "1", "2"}

Contents == SeqsUpTo(ContentPieces, MaxContent)

\* Python's `needle in haystack` on str
StrContains(haystack, needle) ==
    \E k \in 0..(Len(haystack) - Len(needle)) :
        SubSeq(haystack, k + 1, k + Len(needle)) = needle

\* the environment of the probe: an error of a write, of the read or of the
\* first delete; the content the read returns; what the second delete meets
Delete2Outcomes == {"not_found", "succeeded", "other_error"}

IdempotentOperationsEnv ==
    [io : {"ok", "error"}, content : Contents, delete2 : Delete2Outcomes]

IdempotentOperationsNominal ==
    [io |-> "ok", content |-> LastPayload, delete2 |-> "not_found"]

\* assert "Iteration 2" in content
ContentAccepted(content) == StrContains(content, LastPayload)

\* the inner try: FileNotFoundError is swallowed, a second delete that
\* succeeds is only logged, any other exception goes to the outer handler
Delete2Raises(delete2) == delete2 = "other_error"

IdempotentOperationsResult(env) ==
    CASE env.io = "error" -> Result("idempotent_operations", FALSE, "io_error")
      [] env.io = "ok" /\ ~ContentAccepted(env.content) ->
             Result("idempotent_operations", FALSE, "")
      [] env.io = "ok" /\ ContentAccepted(env.content) /\ Delete2Raises(env.delete2) ->
             Result("idempotent_operations", FALSE, "io_error")
      [] OTHER -> Result("idempotent_operations", TRUE, "")

IdempotentOperationsObserved(o, env) ==
    [o EXCEPT !.idem =
        [content |-> CASE env.io = "error" -> "none"
                       [] env.content = LastPayload -> "exact"
                       [] OTHER -> "differs",
         delete2 |-> IF env.io = "ok" /\ ContentAccepted(env.content)
                     THEN env.delete2 ELSE "none"]]

TestIdempotentOperations ==
    /\ pc = "battery"
    /\ CurrentCase = "test_idempotent_operations"
    /\ \E env \in IdempotentOperationsEnv :
        /\ faults + Cost(env, IdempotentOperationsNominal) <= MaxFaults
        /\ faults' = faults + Cost(env, IdempotentOperationsNominal)
        /\ ReturnsObserved("test_idempotent_operations", "idempotent_operations",
                           IdempotentOperationsResult(env),
                           IdempotentOperationsObserved(sessions[idx].obs, env))
    /\ UNCHANGED <<config, isRoot, all_results, text_logger, summaries, printed,
                   reportWritten, report>>

\* test_close_to_open_consistency: write and close, settle, reopen and compare
CloseToOpenConsistencyEnv == {"ok", "assertion", "io_error"}

CloseToOpenConsistencyResult(env) ==
    CASE env = "ok" -> Result("close_to_open_consistency", TRUE, "")
      [] env = "assertion" -> Result("close_to_open_consistency", FALSE, "")
      [] env = "io_error" -> Result("close_to_open_consistency", FALSE, "io_error")

TestCloseToOpenConsistency ==
    /\ pc = "battery"
    /\ CurrentCase = "test_close_to_open_consistency"
    /\ \E env \in CloseToOpenConsistencyEnv :
        /\ faults + Cost(env, "ok") <= MaxFaults
        /\ faults' = faults + Cost(env, "ok")
        /\ ReturnsWith("test_close_to_open_consistency", "close_to_open_consistency", CloseToOpenConsistencyResult(env))
    /\ UNCHANGED <<config, isRoot, all_results, text_logger, summaries, printed,
                   reportWritten, report>>

\* the calls of test_nlm_basic_locking with the release of the lock before the child is joined
NlmStepsUnlockEarly ==
    <<"create", "open", "flock", "start", "unlock", "join", "close">>

\* test_nlm_basic_locking: the calls of the try block that act on the file,
\* the lock and the child process, in program order
NlmSteps == <<"create", "open", "flock", "start", "join", "unlock", "close">>

NlmStepNo(step) == CHOOSE n \in 1..Len(NlmSteps) : NlmSteps[n] = step

\* the calls that can raise: p.join() without a timeout only waits
NlmFailures == {"create", "open", "flock", "start", "unlock", "close"}

\* try_lock_exclusive in the child: LOCK_EX | LOCK_NB on a second open file
\* either raises (would block) or is granted (the lock was acquired)
WorkerOutcomes == {"would_block", "acquired"}

\* the environment of the probe: which call fails, if any, and what the
\* child meets when it runs
NlmBasicLockingNominal == [fails |-> "none", worker |-> "would_block"]

\* the call `step` was made and returned
NlmDone(env, step) ==
    env.fails = "none" \/ NlmStepNo(step) < NlmStepNo(env.fails)

\* the child meets an outcome exactly when it was started
NlmBasicLockingEnv ==
    {env \in [fails : NlmFailures \cup {"none"},
              worker : WorkerOutcomes \cup {"none"}] :
        (env.worker # "none") <=> NlmDone(env, "start")}

\* Process(target=try_lock_exclusive): the return value of the target is
\* dropped by Process.run, and the probe reads neither it nor p.exitcode
NlmBasicLockingResult(env) ==
    IF env.fails = "none"
    THEN Result("nlm_basic_locking", TRUE, "")
    ELSE Result("nlm_basic_locking", FALSE, "io_error")

\* p.start() without the p.join() after it
ChildNotJoined(env) ==
    IF NlmDone(env, "start") THEN "running" ELSE "none"

\* p.start(); p.join(): the two calls follow each other with nothing between
ChildAfter(env) ==
    IF NlmDone(env, "start")
    THEN (IF NlmDone(env, "join") THEN "joined" ELSE "running")
    ELSE "none"

NlmBasicLockingObserved(o, env) ==
    [o EXCEPT !.lock =
        [worker  |-> env.worker,
         child   |-> ChildAfter(env),
         held    |-> NlmDone(env, "flock") /\ ~NlmDone(env, "unlock"),
         fd_open |-> NlmDone(env, "open") /\ ~NlmDone(env, "close"),
         trace   |-> SelectSeq(NlmSteps, LAMBDA step : NlmDone(env, step))]]

TestNlmBasicLocking ==
    /\ pc = "battery"
    /\ CurrentCase = "test_nlm_basic_locking"
    /\ \E env \in NlmBasicLockingEnv :
        /\ faults + Cost(env, NlmBasicLockingNominal) <= MaxFaults
        /\ faults' = faults + Cost(env, NlmBasicLockingNominal)
        /\ ReturnsObserved("test_nlm_basic_locking", "nlm_basic_locking",
                           NlmBasicLockingResult(env),
                           NlmBasicLockingObserved(sessions[idx].obs, env))
    /\ UNCHANGED <<config, isRoot, all_results, text_logger, summaries, printed,
                   reportWritten, report>>

\* test_small_file_performance: os.makedirs(test_subdir) is called before the
\* try block, so its error leaves the test case; errors of the three timed
\* phases are caught and recorded
SmallFilePerformanceEnv == {"ok", "io_error", "makedirs_error"}

SmallFilePerformanceEscapes(env) == env = "makedirs_error"

SmallFilePerformanceResult(env) ==
    CASE env = "ok" -> Result("small_file_performance", TRUE, "100 files")
      [] env = "io_error" -> Result("small_file_performance", FALSE, "io_error")

TestSmallFilePerformance ==
    /\ pc = "battery"
    /\ CurrentCase = "test_small_file_performance"
    /\ \E env \in SmallFilePerformanceEnv :
        /\ faults + Cost(env, "ok") <= MaxFaults
        /\ faults' = faults + Cost(env, "ok")
        /\ IF SmallFilePerformanceEscapes(env)
           THEN EscapesWith("test_small_file_performance",
                            "small_file_performance", "makedirs_error")
           ELSE ReturnsWith("test_small_file_performance",
                            "small_file_performance",
                            SmallFilePerformanceResult(env))
    /\ UNCHANGED <<config, isRoot, all_results, text_logger, summaries, printed,
                   reportWritten, report>>

\* test_concurrent_writers: num_writers writer threads on a ThreadPoolExecutor
\* of num_writers workers.  Each writer writes its own file, fsyncs, reads it
\* back: the file system answers each writer "ok", with a read-back of
\* another length, or with an error.  The pool itself may fail to start.
WriterOutcomes == {"ok", "short_read", "error"}

ConcurrentWritersNominal ==
    [pool |-> "ok", started |-> NumWriters,
     workers |-> [w \in 1..NumWriters |-> "ok"]]

\* a pool that fails has started all of its threads, one, or none
ConcurrentWritersEnv ==
    {[pool |-> "ok", started |-> NumWriters, workers |-> f] :
        f \in [1..NumWriters -> WriterOutcomes]}
    \cup {[pool |-> "error", started |-> n,
           workers |-> [w \in 1..NumWriters |-> "none"]] : n \in {0, 1, NumWriters}}

\* writer_task: len(read_data) == len(data), False on any Exception
WriterTask(outcome) == outcome = "ok"

\* the writers whose result list(executor.map(writer_task, ...)) collects:
\* all of them, no exception leaves writer_task
WritersCollected(workers) == 1..NumWriters

\* success_count = sum(results)
SuccessCount(workers) ==
    Cardinality({w \in WritersCollected(workers) : WriterTask(workers[w])})

\* the pass condition as it would be with `success_count > 0`
WritersPassedIfAny(success_count) == success_count > 0

\* the pass condition: success_count == num_writers
WritersPassed(success_count) == success_count = NumWriters

\* f"{success_count}/{num_writers} writers succeeded ..."
WritersMessage(success_count) ==
    ToString(success_count) \o "/" \o ToString(NumWriters) \o " writers succeeded"

ConcurrentWritersResult(env) ==
    IF env.pool = "ok"
    THEN Result("concurrent_writers", WritersPassed(SuccessCount(env.workers)),
                WritersMessage(SuccessCount(env.workers)))
    ELSE Result("concurrent_writers", FALSE, "error")

\* leaving the `with ThreadPoolExecutor(...)` block as it would be with
\* shutdown(wait=False): no thread is waited for
ExecutorLeftRunning(started) == 0

\* leaving the `with ThreadPoolExecutor(...)` block: shutdown(wait=True)
\* joins every thread that was started, on the normal and the exception path
ExecutorJoined(started) == started

ConcurrentWritersObserved(o, env) ==
    LET started == env.started IN
    [o EXCEPT !.writers =
        [pool      |-> env.pool,
         ok        |-> Cardinality({w \in 1..NumWriters : env.workers[w] = "ok"}),
         started   |-> started,
         completed |-> IF env.pool = "ok"
                       THEN Cardinality(WritersCollected(env.workers)) ELSE 0,
         joined    |-> ExecutorJoined(started)]]

TestConcurrentWriters ==
    /\ pc = "battery"
    /\ CurrentCase = "test_concurrent_writers"
    /\ \E env \in ConcurrentWritersEnv :
        /\ faults + Cost(env, ConcurrentWritersNominal) <= MaxFaults
        /\ faults' = faults + Cost(env, ConcurrentWritersNominal)
        /\ ReturnsObserved("test_concurrent_writers", "concurrent_writers",
                           ConcurrentWritersResult(env),
                           ConcurrentWritersObserved(sessions[idx].obs, env))
    /\ UNCHANGED <<config, isRoot, all_results, text_logger, summaries, printed,
                   reportWritten, report>>

\* test_large_file_sequential_io: 128 MB of os.urandom written in 1 MB
\* chunks, then read in 1 MB chunks until the empty chunk.  The read loop
\* keeps only bytes_read, and nothing compares it or the chunks read with
\* what was written.
Readbacks == {"same", "differs", "shorter"}

LargeFileSequentialIoEnv ==
    {[io |-> "ok", readback |-> r] : r \in Readbacks}
    \cup {[io |-> "error", readback |-> "none"]}

LargeFileSequentialIoNominal == [io |-> "ok", readback |-> "same"]

LargeFileSequentialIoResult(env) ==
    IF env.io = "ok"
    THEN Result("large_sequential_io", TRUE, "128MB")
    ELSE Result("large_sequential_io", FALSE, "io_error")

TestLargeFileSequentialIo ==
    /\ pc = "battery"
    /\ CurrentCase = "test_large_file_sequential_io"
    /\ \E env \in LargeFileSequentialIoEnv :
        /\ faults + Cost(env, LargeFileSequentialIoNominal) <= MaxFaults
        /\ faults' = faults + Cost(env, LargeFileSequentialIoNominal)
        /\ ReturnsObserved("test_large_file_sequential_io", "large_sequential_io",
                           LargeFileSequentialIoResult(env),
                           [sessions[idx].obs EXCEPT !.readback.large = env.readback])
    /\ UNCHANGED <<config, isRoot, all_results, text_logger, summaries, printed,
                   reportWritten, report>>

\* test_readonly_mount_enforcement: a write at the mount root must be refused
\* with EROFS or EACCES
EROFS == 30
EACCES == 13

\* the errno values an OSError of the write may carry: the two above, and
\* EPERM and EIO for the others
Errnos == {EROFS, EACCES, 1, 5}

\* the environment of the probe: the write succeeds, raises an OSError with
\* an errno, or raises another exception
ReadonlyMountEnforcementEnv ==
    {[write |-> "succeeded", errno |-> 0], [write |-> "other_exception", errno |-> 0]}
    \cup {[write |-> "os_error", errno |-> e] : e \in Errnos}

ReadonlyMountEnforcementNominal == [write |-> "os_error", errno |-> EROFS]

\* the test on the errno as it would be without it: any OSError passes
WriteBlockedByAnyError(errno) == TRUE

\* e.errno in (30, 13)
WriteBlocked(errno) == errno \in {30, 13}

ReadonlyMountEnforcementResult(env) ==
    CASE env.write = "succeeded" ->
             Result("readonly_mount_enforcement", FALSE, "Write succeeded on ro mount!")
      [] env.write = "os_error" /\ WriteBlocked(env.errno) ->
             Result("readonly_mount_enforcement", TRUE,
                    "Write blocked as expected (errno " \o ToString(env.errno) \o ")")
      [] env.write = "os_error" /\ ~WriteBlocked(env.errno) ->
             Result("readonly_mount_enforcement", FALSE, "os_error")
      [] env.write = "other_exception" ->
             Result("readonly_mount_enforcement", FALSE, "error")

ReadonlyMountEnforcementObserved(o, env) == [o EXCEPT !.ro = env]

TestReadonlyMountEnforcement ==
    /\ pc = "battery"
    /\ CurrentCase = "test_readonly_mount_enforcement"
    /\ \E env \in ReadonlyMountEnforcementEnv :
        /\ faults + Cost(env, ReadonlyMountEnforcementNominal) <= MaxFaults
        /\ faults' = faults + Cost(env, ReadonlyMountEnforcementNominal)
        /\ ReturnsObserved("test_readonly_mount_enforcement", "readonly_mount_enforcement",
                           ReadonlyMountEnforcementResult(env),
                           ReadonlyMountEnforcementObserved(sessions[idx].obs, env))
    /\ UNCHANGED <<config, isRoot, all_results, text_logger, summaries, printed,
                   reportWritten, report>>

\* test_readonly_mount_read_operations: os.listdir and os.stat of the mount point
ReadonlyMountReadOperationsEnv == {"ok", "io_error"}

ReadonlyMountReadOperationsResult(env) ==
    CASE env = "ok" -> Result("readonly_mount_read_operations", TRUE, "Read operations successful")
      [] env = "io_error" -> Result("readonly_mount_read_operations", FALSE, "io_error")

TestReadonlyMountReadOperations ==
    /\ pc = "battery"
    /\ CurrentCase = "test_readonly_mount_read_operations"
    /\ \E env \in ReadonlyMountReadOperationsEnv :
        /\ faults + Cost(env, "ok") <= MaxFaults
        /\ faults' = faults + Cost(env, "ok")
        /\ ReturnsWith("test_readonly_mount_read_operations", "readonly_mount_read_operations", ReadonlyMountReadOperationsResult(env))
    /\ UNCHANGED <<config, isRoot, all_results, text_logger, summaries, printed,
                   reportWritten, report>>

\* the name each test case gives log_test_start ("": it does not call it)
StartName(case) ==
    CASE case = "test_mount_options_verification" -> "test_mount_options_verification"
      [] case = "test_transport_protocol" -> "transport_protocol"
      [] case = "test_readwrite_mount_enforcement" -> ""
      [] case = "test_basic_file_operations" -> "basic_file_operations"
      [] case = "test_idempotent_operations" -> "idempotent_operations"
      [] case = "test_close_to_open_consistency" -> "close_to_open_consistency"
      [] case = "test_nlm_basic_locking" -> "nlm_basic_locking"
      [] case = "test_small_file_performance" -> "small_file_performance"
      [] case = "test_concurrent_writers" -> "concurrent_writers"
      [] case = "test_large_file_sequential_io" -> "large_sequential_io"
      [] case = "test_readonly_mount_enforcement" -> "readonly_mount_enforcement"
      [] case = "test_readonly_mount_read_operations" -> "readonly_mount_read_operations"

\* a KeyboardInterrupt delivered inside the try block of the current test
\* case, before its log_result: `except Exception` does not catch it, it
\* leaves the test case and reaches the finally clause of run_basic_tests
InterruptTestCase ==
    /\ pc = "battery"
    /\ faults < MaxFaults
    /\ faults' = faults + 1
    /\ EscapesWith(CurrentCase, StartName(CurrentCase), "KeyboardInterrupt")
    /\ UNCHANGED <<config, isRoot, all_results, text_logger, summaries, printed,
                   reportWritten, report>>

\* ---------------------------------------------------------------- teardown
\* teardown(), the try block: on an 'rw' mount whose test directory exists,
\* `rm -rf test_dir` (30 s timeout); any error is logged as a warning.
\* On any other mount the condition is false before the file system is asked.
RemovalEnv == {"removed", "rm_failed", "timeout", "dir_missing"}

CleanupEnv(s) ==
    IF s.mount_type = "rw" /\ s.test_dir # "None"
    THEN RemovalEnv ELSE {"not_attempted"}

\* the rm -rf command is issued
RemovalIssued(env) == env \in {"removed", "rm_failed", "timeout"}

CleanupCost(env) == IF env \in {"removed", "not_attempted"} THEN 0 ELSE 1

\* teardown() as it would be without `except Exception` and `finally`: the
\* TimeoutExpired of the rm -rf command leaves teardown() before the unmount
AfterCleanupUnprotected(env) ==
    IF env = "timeout" THEN "crashed" ELSE "teardown_unmount"

\* where control goes after the try block of teardown(): every Exception is
\* caught and logged, and the finally clause runs in any case
AfterCleanup(env) == "teardown_unmount"

TeardownCleanup ==
    /\ pc = "teardown"
    /\ \E env \in CleanupEnv(sessions[idx]) :
        /\ faults + CleanupCost(env) <= MaxFaults
        /\ faults' = faults + CleanupCost(env)
        /\ sessions' = [sessions EXCEPT
               ![idx].teardowns = @ + 1,
               ![idx].cleanup = env,
               ![idx].removals = IF RemovalIssued(env) THEN @ + 1 ELSE @]
        /\ pc' = AfterCleanup(env)
    /\ UNCHANGED <<config, isRoot, next_case, exc, all_results, text_logger,
                   log_entries, summaries, printed, reportWritten, report>>

\* teardown(), the finally clause: self.unmount(); then run_basic_tests
\* goes on, or the exception of the battery propagates and ends the process
TeardownUnmount ==
    /\ pc = "teardown_unmount"
    /\ \E outcome \in UmountEnv :
        /\ faults + Cost(outcome, "ok") <= MaxFaults
        /\ faults' = faults + Cost(outcome, "ok")
        /\ sessions' = [sessions EXCEPT ![idx] = Unmount(@, outcome)]
    /\ pc' = IF exc = "none" THEN "extend" ELSE "crashed"
    /\ UNCHANGED <<config, isRoot, next_case, exc, all_results, text_logger,
                   log_entries, summaries, printed, reportWritten, report>>

\* self.all_results.extend(test.results); return test.results
ExtendResults ==
    /\ pc = "extend"
    /\ all_results' = all_results \o sessions[idx].results
    /\ pc' = "summary"
    /\ UNCHANGED <<config, isRoot, sessions, next_case, exc, text_logger,
                   log_entries, summaries, printed, reportWritten, report, faults>>

\* a division by total raises ZeroDivisionError iff total is 0
DivisionRaises(total) == total = 0

\* print_summary: 100*passed/total and 100*failed/total are evaluated for
\* every total
PrintSummaryRaises(results) == DivisionRaises(Len(results))

\* sum(1 for r in results if r['passed'])
PassedCount(results) ==
    Cardinality({k \in 1..Len(results) : results[k].passed})

\* 100*num/den in tenths, cut instead of rounded
TenthsTruncated(num, den) == (1000 * num) \div den

\* 100*num/den as the format :.1f renders it, in tenths: the nearest tenth,
\* the even one when the value lies exactly between two
Tenths(num, den) ==
    LET q == (1000 * num) \div den
        r == (1000 * num) % den
    IN  IF 2 * r > den \/ (2 * r = den /\ q % 2 = 1) THEN q + 1 ELSE q

\* the digits of a number of tenths: "70.0" for 700
Format1f(tenths) == ToString(tenths \div 10) \o "." \o ToString(tenths % 10)

\* f"{100*num/den:.1f}%"
Percent(num, den) == Format1f(Tenths(num, den)) \o "%"

\* the Total Tests / Passed / Failed lines of print_summary
PrintedSummary(results) ==
    LET total == Len(results)
        passed == PassedCount(results)
        failed == total - passed
    IN  [total |-> total, passed |-> passed, failed |-> failed,
         rate |-> Percent(passed, total), failed_rate |-> Percent(failed, total)]

PrintSummary ==
    /\ pc = "summary"
    /\ IF PrintSummaryRaises(all_results)
       THEN /\ pc' = "crashed"
            /\ exc' = "ZeroDivisionError"
            /\ UNCHANGED <<summaries, printed>>
       ELSE /\ pc' = "loop"
            /\ summaries' = summaries + 1
            /\ printed' = PrintedSummary(all_results)
            /\ UNCHANGED exc
    /\ UNCHANGED <<config, isRoot, sessions, next_case, all_results,
                   text_logger, log_entries, reportWritten, report, faults>>

\* generate_report: results = the test_result entries of the log
ReportResults(entries) == SelectSeq(entries, LAMBDA e : e.type = "test_result")

\* generate_report: passed/total*100 is evaluated only if total > 0, and the
\* line is "N/A" otherwise
ReportSummaryRaises(entries) ==
    LET total == Len(ReportResults(entries)) IN
    total > 0 /\ DivisionRaises(total)

\* the TEST SUMMARY lines of generate_report
ReportSummary(entries) ==
    LET results == ReportResults(entries)
        total == Len(results)
        passed == PassedCount(results)
        failed == total - passed
    IN  [total |-> total, passed |-> passed, failed |-> failed,
         rate |-> IF total > 0 THEN Percent(passed, total) ELSE "N/A",
         failed_rate |-> ""]

\* text_logger.generate_report() after the loop, then the process ends
GenerateReport ==
    /\ pc = "report"
    /\ IF ReportSummaryRaises(log_entries)
       THEN /\ pc' = "crashed"
            /\ exc' = "ZeroDivisionError"
            /\ UNCHANGED <<reportWritten, report>>
       ELSE /\ pc' = "done"
            /\ reportWritten' = TRUE
            /\ report' = ReportSummary(log_entries)
            /\ UNCHANGED exc
    /\ UNCHANGED <<config, isRoot, sessions, next_case, all_results,
                   text_logger, log_entries, summaries, printed, faults>>

Next ==
    \/ CheckPrivilege
    \/ NextExport
    \/ LoopEnd
    \/ SetupMount
    \/ ProvisionReadOnly
    \/ ProvisionDirectory
    \/ ProvisionFails
    \/ SetupUnmount
    \/ InterruptSetup
    \/ InterruptTestCase
    \/ TestMountOptionsVerification
    \/ TestTransportProtocol
    \/ TestReadwriteMountEnforcement
    \/ TestBasicFileOperations
    \/ TestIdempotentOperations
    \/ TestCloseToOpenConsistency
    \/ TestNlmBasicLocking
    \/ TestSmallFilePerformance
    \/ TestConcurrentWriters
    \/ TestLargeFileSequentialIo
    \/ TestReadonlyMountEnforcement
    \/ TestReadonlyMountReadOperations
    \/ TeardownCleanup
    \/ TeardownUnmount
    \/ ExtendResults
    \/ PrintSummary
    \/ GenerateReport

Spec == Init /\ [][Next]_vars

\* ------------------------------------------------- the summaries alone
\* print_summary of a runner and the summary of generate_report, over any
\* record set of up to MaxResults records, the empty one included: a runner
\* whose all_results is what its constructor left, or was filled by batteries
SampleResults ==
    {Result("mount_options_verification", p, "") : p \in BOOLEAN}

SummaryInit ==
    /\ config = <<>>
    /\ isRoot = TRUE
    /\ pc = "summary"
    /\ sessions = <<>>
    /\ next_case = 1
    /\ exc = "none"
    /\ all_results \in SeqsUpTo(SampleResults, MaxResults)
    /\ text_logger = TRUE
    /\ log_entries = [k \in 1..Len(all_results) |->
                         [type |-> "test_result", test_name |-> all_results[k].test,
                          passed |-> all_results[k].passed,
                          message |-> all_results[k].message]]
    /\ summaries = 0
    /\ reportWritten = FALSE
    /\ printed = NoSummary
    /\ report = NoSummary
    /\ faults = 0

SummaryNext ==
    \/ PrintSummary
    \/ LoopEnd
    \/ GenerateReport

SummarySpec == SummaryInit /\ [][SummaryNext]_vars

\* ------------------------------------------------ the mount command alone
\* mount() of one session for any NFSMountOptions value: both transports,
\* every flag on and off, actimeo unset, zero and positive; the sizes and
\* timers keep their defaults
MountOptionValues ==
    { [DefaultMountOptions EXCEPT !.transport = t, !.soft = so, !.intr = i,
                                  !.noac = n, !.actimeo = a,
                                  !.nosharecache = sc, !.nordirplus = rd] :
        t \in {"tcp", "udp"}, so \in BOOLEAN, i \in BOOLEAN, n \in BOOLEAN,
        a \in {<<>>, <<0>>, <<30>>}, sc \in BOOLEAN, rd \in BOOLEAN }

OptionsInit ==
    /\ config \in {<<m>> : m \in MountTypes}
    /\ isRoot = TRUE
    /\ pc = "setup_mount"
    /\ \E o \in MountOptionValues :
           sessions = <<[NewSession(config[1]) EXCEPT !.mount_options = o]>>
    /\ next_case = 1
    /\ exc = "none"
    /\ all_results = <<>>
    /\ text_logger = TRUE
    /\ log_entries = <<>>
    /\ summaries = 0
    /\ reportWritten = FALSE
    /\ printed = NoSummary
    /\ report = NoSummary
    /\ faults = 0

OptionsNext == SetupMount

OptionsSpec == OptionsInit /\ [][OptionsNext]_vars

\* ================================================================= claims
Sessions == 1..Len(sessions)

\* control has left the try/finally of run_basic_tests for session i
LeftBattery(i) ==
    \/ i < idx
    \/ pc \in {"extend", "summary", "loop", "report", "done", "crashed"}

\* the process has ended
Ended == pc \in {"done", "crashed", "exit1"}

IsPrefix(a, b) ==
    /\ Len(a) <= Len(b)
    /\ \A k \in 1..Len(a) : a[k] = b[k]

ResultNames(s) == [k \in 1..Len(s.results) |-> s.results[k].test]

\* C1: a session whose setup() returned has had teardown() run, and its
\* unmount issued, exactly once when run_basic_tests is left, whether the
\* battery ended normally or a test case raised; teardown never runs twice.
C1_TeardownExactlyOnce ==
    \A i \in Sessions :
        LET s == sessions[i] IN
        /\ s.teardowns <= 1
        /\ (s.setup = "returned" /\ LeftBattery(i))
               => (s.teardowns = 1 /\ s.umountCmds = 1)

\* a test case raised out of the battery and the session was torn down once
C1_Witness ==
    /\ idx >= 1
    /\ pc = "crashed"
    /\ exc = "makedirs_error"
    /\ sessions[idx].setup = "returned"
    /\ sessions[idx].teardowns = 1
    /\ sessions[idx].umountCmds = 1

\* C2 (as claimed): when the run has ended and the session of one export
\* failed in setup() (mount or working-directory fault), the battery of
\* every other configured export has run, or that export's own session
\* failed in setup() too.
C2_OtherBatteriesStillRun ==
    Ended =>
        \A i \in Sessions :
            sessions[i].setup = "raised" =>
                \A j \in (1..Len(config)) \ {i} :
                    /\ j <= Len(sessions)
                    /\ \/ sessions[j].executed # <<>>
                       \/ sessions[j].setup = "raised"

\* C3 (as claimed): no fault leaves a test case: every test case called has
\* recorded its result, and a battery that was started is left only after
\* all of its cases were called.
C3_CaseFaultsAreIsolated ==
    \A i \in Sessions :
        LET s == sessions[i] IN
        /\ Len(s.results) = Len(s.executed)
        /\ (s.setup = "returned" /\ LeftBattery(i))
               => Len(s.executed) = Len(Battery(s.mount_type))

\* C4 (as claimed): a run started as root ends only after a summary was
\* printed and generate_report has written the report; no fault escapes.
C4_RunAlwaysReports ==
    (isRoot /\ Ended) => (pc = "done" /\ reportWritten /\ summaries >= 1)

\* the fixed orders the claim C5 states, by method and by recorded name
ClaimedReadWriteOrder ==
    << "test_mount_options_verification", "test_transport_protocol",
       "test_readwrite_mount_enforcement", "test_basic_file_operations",
       "test_idempotent_operations", "test_close_to_open_consistency",
       "test_nlm_basic_locking", "test_small_file_performance",
       "test_concurrent_writers", "test_large_file_sequential_io" >>

ClaimedReadWriteResults ==
    << "mount_options_verification", "transport_protocol",
       "readwrite_mount_enforcement", "basic_file_operations",
       "idempotent_operations", "close_to_open_consistency",
       "nlm_basic_locking", "small_file_performance",
       "concurrent_writers", "large_sequential_io" >>

ClaimedReadOnlyOrder ==
    << "test_mount_options_verification", "test_transport_protocol",
       "test_readonly_mount_enforcement",
       "test_readonly_mount_read_operations" >>

ClaimedReadOnlyResults ==
    << "mount_options_verification", "transport_protocol",
       "readonly_mount_enforcement", "readonly_mount_read_operations" >>

\* C5: at every moment the test cases called so far in a session are the
\* first cases of the fixed order of its mount mode, called once each, and
\* the results recorded so far are those of these cases in the same order.
C5_FixedOrder ==
    \A i \in Sessions :
        LET s == sessions[i] IN
        /\ s.mount_type = "rw" =>
               /\ IsPrefix(s.executed, ClaimedReadWriteOrder)
               /\ IsPrefix(ResultNames(s), ClaimedReadWriteResults)
        /\ s.mount_type = "ro" =>
               /\ IsPrefix(s.executed, ClaimedReadOnlyOrder)
               /\ IsPrefix(ResultNames(s), ClaimedReadOnlyResults)
        /\ Len(s.results) <= Len(s.executed)

\* a read-write and a read-only battery have both run to their last case
C5_Witness ==
    \E i, j \in Sessions :
        /\ sessions[i].mount_type = "rw"
        /\ sessions[i].executed = ClaimedReadWriteOrder
        /\ ResultNames(sessions[i]) = ClaimedReadWriteResults
        /\ sessions[j].mount_type = "ro"
        /\ sessions[j].executed = ClaimedReadOnlyOrder
        /\ ResultNames(sessions[j]) = ClaimedReadOnlyResults

\* C6 (as claimed): whatever the outcomes of the cases, a battery on a
\* mounted read-write export yields 10 results and one on a mounted
\* read-only export yields 4.
C6_BatteryYieldsAllResults ==
    \A i \in Sessions :
        LET s == sessions[i] IN
        (s.setup = "returned" /\ LeftBattery(i)) =>
            /\ s.mount_type = "rw" => Len(s.results) = 10
            /\ s.mount_type = "ro" => Len(s.results) = 4

\* C7: mount() returns True only when the mount command exited 0 and the
\* mount point was found in the mount table; after a non-zero exit, a
\* timeout or a mount-table miss it returns False, setup() raises and no
\* test case of the session is ever called.
C7_MountedOnlyIfVerified ==
    \A i \in Sessions :
        LET s == sessions[i] IN
        /\ s.mountRet = "True" => (s.mountCmd = "rc0" /\ s.tableCheck = "hit")
        /\ (s.mountCmd \in {"rc_nonzero", "timeout"} \/ s.tableCheck = "miss")
               => /\ s.mountRet = "False"
                  /\ s.setup = "raised"
                  /\ s.executed = <<>>

\* the mount command exited 0, the mount table missed, and the run has ended
C7_Witness ==
    /\ idx >= 1
    /\ Ended
    /\ sessions[idx].mountCmd = "rc0"
    /\ sessions[idx].tableCheck = "miss"
    /\ sessions[idx].mountRet = "False"

\* setup() of session s failed at the creation of the working directory
ProvisionFailed(s) == s.mountRet = "True" /\ s.mkdirs = 1 /\ s.setup # "returned"

\* C8: when the creation of the working directory of a read-write session
\* fails after a successful mount, the unmount has been issued by the time
\* setup() raises, and no test case of the session is ever called.
C8_ProvisionFailureUnmounts ==
    \A i \in Sessions :
        LET s == sessions[i] IN
        ProvisionFailed(s) =>
            /\ s.executed = <<>>
            /\ s.teardowns = 0
            /\ s.setup = "raised" => s.umountCmds = 1
            /\ (i < idx \/ pc # "setup_unmount") => s.setup = "raised"

\* the directory creation failed, the unmount was issued, the error went up
C8_Witness ==
    /\ idx >= 1
    /\ pc = "crashed"
    /\ exc = "Failed to create test directory"
    /\ sessions[idx].mount_type = "rw"
    /\ sessions[idx].mkdirs = 1
    /\ sessions[idx].umountCmds = 1

\* session s is torn down or failed
Finished(s) ==
    \/ s.setup = "raised"
    \/ (s.teardowns >= 1 /\ s.umountCmds >= 1)

\* C9: every step leaves every session with at most one mount command and
\* at most one unmount command issued, and changes nothing (no mount, no
\* unmount, no test case, no result) on a session that is torn down or failed.
C9_NeverRetried ==
    [][ /\ \A i \in 1..Len(sessions') :
              /\ sessions'[i].mountCmds <= 1
              /\ sessions'[i].umountCmds <= 1
        /\ \A i \in Sessions :
              Finished(sessions[i]) =>
                  /\ i <= Len(sessions')
                  /\ sessions'[i] = sessions[i] ]_vars

\* a torn-down session and a later session that has issued its own mount
C9_Witness ==
    \E i \in Sessions :
        /\ i < idx
        /\ Finished(sessions[i])
        /\ sessions[i].mountCmds = 1
        /\ sessions[i].umountCmds = 1
        /\ sessions[idx].mountCmds = 1
        /\ sessions[idx].executed # <<>>

\* session s is active: mounted by the OS, its unmount not yet issued
Active(s) == s.mountCmd = "rc0" /\ s.umountCmds = 0

\* C10: at most one session is active at any moment, and a session issues
\* its mount only after the unmount of the session before it was issued.
C10_AtMostOneActive ==
    /\ Cardinality({i \in Sessions : Active(sessions[i])}) <= 1
    /\ \A i \in Sessions :
           (i > 1 /\ sessions[i].mountCmds > 0)
               => sessions[i - 1].umountCmds >= 1

\* the second session is active after the first one was mounted and unmounted
C10_Witness ==
    /\ idx >= 2
    /\ Active(sessions[idx])
    /\ sessions[idx - 1].mountCmd = "rc0"
    /\ sessions[idx - 1].umountCmds = 1

\* C11 (as claimed): teardown() of a read-write session issues the rm -rf of
\* the working directory, and only then the unmount, whatever the removal's
\* outcome; teardown() of a read-only session issues no removal and issues
\* the unmount.
C11_RemovalAlwaysAttempted ==
    \A i \in Sessions :
        LET s == sessions[i] IN
        /\ (s.mount_type = "rw" /\ s.teardowns = 1) => s.removals = 1
        /\ s.mount_type = "ro" => s.removals = 0
        /\ s.teardowns = 0 => s.umountCmds = 0 \/ s.setup = "raised"
        /\ (s.teardowns = 1 /\ LeftBattery(i)) => s.umountCmds = 1

\* C11 (amended): teardown() of a read-write session issues the rm -rf of
\* the working directory when os.path.exists reports it present, and issues
\* none when it reports it absent; in both cases, and whatever the outcome
\* of the removal (success, error, timeout), the unmount is issued after the
\* cleanup step; teardown() of a read-only session issues no removal and
\* issues the unmount.
C11_RemovalThenUnmount ==
    \A i \in Sessions :
        LET s == sessions[i] IN
        /\ (s.mount_type = "rw" /\ s.teardowns = 1) =>
               (s.removals = 1 <=> s.cleanup # "dir_missing")
        /\ s.mount_type = "ro" => (s.removals = 0 /\ s.cleanup \in {"none", "not_attempted"})
        /\ s.teardowns = 0 => s.umountCmds = 0 \/ s.setup = "raised"
        /\ (s.teardowns = 1 /\ LeftBattery(i)) => s.umountCmds = 1

\* a read-write teardown whose rm -rf timed out and whose unmount was issued
C11_Witness ==
    \E i \in Sessions :
        /\ sessions[i].mount_type = "rw"
        /\ sessions[i].cleanup = "timeout"
        /\ sessions[i].removals = 1
        /\ sessions[i].umountCmds = 1

\* C12 (as claimed): when the run has ended by a KeyboardInterrupt, every
\* session whose OS mount command had succeeded has had its unmount issued.
C12_InterruptStillUnmounts ==
    (Ended /\ exc = "KeyboardInterrupt") =>
        \A i \in Sessions :
            sessions[i].mountCmd = "rc0" => sessions[i].umountCmds >= 1

\* the results session s recorded under the name test_name
ResultsOf(s, test_name) ==
    {k \in 1..Len(s.results) : s.results[k].test = test_name}

\* C13: when the concurrent-writers probe has run its pool of W writers, the
\* recorded result is a pass iff the file system answered all W writers with
\* success; all W writers ran to completion whatever the others did, and
\* the message reports the number of successful writers out of W.
C13_WritersPassIffAllSucceed ==
    \A i \in Sessions :
        LET s == sessions[i] IN
        \A k \in ResultsOf(s, "concurrent_writers") :
            s.obs.writers.pool = "ok" =>
                /\ s.results[k].passed <=> (s.obs.writers.ok = NumWriters)
                /\ s.obs.writers.completed = NumWriters
                /\ s.results[k].message =
                       ToString(s.obs.writers.ok) \o "/" \o ToString(NumWriters)
                           \o " writers succeeded"

\* one writer of W failed: the probe recorded a failure with W - 1 of W
C13_Witness ==
    \E i \in Sessions :
        \E k \in ResultsOf(sessions[i], "concurrent_writers") :
            /\ sessions[i].obs.writers.ok = NumWriters - 1
            /\ sessions[i].obs.writers.completed = NumWriters
            /\ ~sessions[i].results[k].passed

\* C14: the locking probe records a pass only if the worker process observed
\* that its non-blocking exclusive lock attempt would block; when the worker
\* acquired the lock, the probe records a failure.
C14_PassOnlyIfWorkerBlocked ==
    \A i \in Sessions :
        \A k \in ResultsOf(sessions[i], "nlm_basic_locking") :
            /\ sessions[i].results[k].passed =>
                   sessions[i].obs.lock.worker = "would_block"
            /\ sessions[i].obs.lock.worker = "acquired" =>
                   ~sessions[i].results[k].passed

\* C15: no worker outlives its probe: when the concurrent-writers probe has
\* returned, every writer thread that was started has been joined, and when
\* the locking probe has returned, its worker process, if it was started, has
\* been joined; this holds whether the probe recorded a pass or a failure.
C15_NoWorkerOutlivesProbe ==
    \A i \in Sessions :
        /\ sessions[i].obs.writers.joined = sessions[i].obs.writers.started
        /\ sessions[i].obs.lock.child \in {"none", "joined"}

\* a locking probe that failed after its worker ran, followed by a writers
\* probe whose threads all ran
C15_Witness ==
    \E i \in Sessions :
        \E k \in ResultsOf(sessions[i], "nlm_basic_locking") :
            /\ ~sessions[i].results[k].passed
            /\ sessions[i].obs.lock.child = "joined"
            /\ sessions[i].obs.writers.started = NumWriters
            /\ sessions[i].obs.writers.joined = NumWriters

\* C16: the idempotence probe records a pass only if the content read back
\* after the overwrites equals exactly the last payload written; content that
\* carries extra data before or after that payload must not pass.
C16_PassOnlyIfExactContent ==
    \A i \in Sessions :
        \A k \in ResultsOf(sessions[i], "idempotent_operations") :
            sessions[i].results[k].passed =>
                sessions[i].obs.idem.content = "exact"

\* C17: the idempotence probe records a pass only if the second delete of
\* the removed file failed with not-found; a second delete that succeeds, or
\* fails with another class of error, records a failure.
C17_PassOnlyIfSecondDeleteNotFound ==
    \A i \in Sessions :
        \A k \in ResultsOf(sessions[i], "idempotent_operations") :
            sessions[i].results[k].passed =>
                sessions[i].obs.idem.delete2 = "not_found"

\* C18: the write-enforcement probe of a read-only session records a pass
\* iff the write was rejected with a permission-denied or a read-only-file-
\* system error; a write that succeeds, or fails with another class of
\* error, records a failure.
C18_PassIffWriteRejected ==
    \A i \in Sessions :
        \A k \in ResultsOf(sessions[i], "readonly_mount_enforcement") :
            sessions[i].results[k].passed <=>
                /\ sessions[i].obs.ro.write = "os_error"
                /\ sessions[i].obs.ro.errno \in {EACCES, EROFS}

\* a write refused with another errno: the probe recorded a failure
C18_Witness ==
    \E i \in Sessions :
        \E k \in ResultsOf(sessions[i], "readonly_mount_enforcement") :
            /\ sessions[i].obs.ro.write = "os_error"
            /\ sessions[i].obs.ro.errno \notin {EACCES, EROFS}
            /\ ~sessions[i].results[k].passed

\* the round-trip probes and the place of their read-back in the observations
RoundTripProbes ==
    {<<"readwrite_mount_enforcement", "rw">>, <<"basic_file_operations", "basic">>,
     <<"large_sequential_io", "large">>}

\* C19: a round-trip probe of a read-write session records a pass only if
\* the data read back equals the data written, for the small payloads of the
\* write-enforcement and basic-operations probes and for the large chunked
\* payload: the large I/O probe fails whenever the data read back differs
\* from, or is shorter than, what was written.
C19_RoundTripsCompareData ==
    \A i \in Sessions : \A p \in RoundTripProbes :
        \A k \in ResultsOf(sessions[i], p[1]) :
            sessions[i].results[k].passed =>
                sessions[i].obs.readback[p[2]] = "same"

\* C20: a summary computed over an empty record set never raises a division
\* fault: print_summary and the summary of generate_report both complete.
C20_SummaryNeverDivides == exc # "ZeroDivisionError"

\* the summary s states, for t records of which p passed: total t, passed p,
\* failed t - p, and a success ratio that is the tenth nearest to 100*p/t;
\* all passed reads 100.0% and 7 of 10 reads 70.0%
SummaryStates(s, t, p) ==
    /\ s.total = t
    /\ s.passed = p
    /\ s.failed = t - p
    /\ \E T \in ((1000 * p) \div t)..((1000 * p) \div t + 1) :
        /\ 2 * (T * t - 1000 * p) <= t
        /\ 2 * (1000 * p - T * t) <= t
        /\ s.rate = Format1f(T) \o "%"
    /\ (p = t) => s.rate = "100.0%"
    /\ (t = 10 /\ p = 7) => s.rate = "70.0%"

\* C21: for every record set with t > 0 results of which p passed, the
\* summary printed by print_summary and the summary of the report written by
\* generate_report state total = t, passed = p, failed = t - p and the success
\* ratio 100*p/t to one decimal: 100.0% for 10 of 10, 70.0% for 7 of 10.
C21_SummaryCounts ==
    /\ (pc \in {"loop", "report", "done"} /\ Len(all_results) > 0) =>
           SummaryStates(printed, Len(all_results),
               Cardinality({k \in 1..Len(all_results) : all_results[k].passed}))
    /\ (reportWritten /\ Len(ReportResults(log_entries)) > 0) =>
           SummaryStates(report, Len(ReportResults(log_entries)),
               Cardinality({k \in 1..Len(log_entries) :
                   log_entries[k].type = "test_result" /\ log_entries[k].passed}))

\* 7 passed and 3 failed, printed and written as 70.0%
C21_Witness ==
    /\ reportWritten
    /\ Len(all_results) = 10
    /\ printed.passed = 7 /\ printed.failed = 3 /\ printed.rate = "70.0%"
    /\ report.passed = 7 /\ report.failed = 3 /\ report.rate = "70.0%"

\* C22: the result records are append-only.  In every step, the results of
\* every session and the entries of the text log keep all their records, each
\* in its position with its test name, outcome and message, and so does the
\* runner's all_results until a new runner is created; the steps that print
\* the summary and write the report change none of them.
C22_AppendOnly ==
    [][ /\ \A i \in Sessions : IsPrefix(sessions[i].results, sessions'[i].results)
        /\ IsPrefix(log_entries, log_entries')
        /\ IsPrefix(all_results, all_results') \/ Len(sessions') > Len(sessions)
        /\ pc \in {"summary", "report"} =>
               /\ sessions' = sessions
               /\ all_results' = all_results
               /\ log_entries' = log_entries ]_vars

\* two batteries have recorded results, both summaries were printed and the
\* report was written, with the records of the first session still in place
C22_Witness ==
    /\ reportWritten
    /\ summaries = 2
    /\ Len(sessions) = 2
    /\ Len(sessions[1].results) >= 4
    /\ Len(log_entries) > Len(all_results)

\* the eight test cases that need a writable working directory
WritingCases ==
    {"test_readwrite_mount_enforcement", "test_basic_file_operations",
     "test_idempotent_operations", "test_close_to_open_consistency",
     "test_nlm_basic_locking", "test_small_file_performance",
     "test_concurrent_writers", "test_large_file_sequential_io"}

\* C23: in a read-only session the working directory is the mount point
\* itself, setup() attempts no directory creation, and none of the eight
\* read-write-only test cases is ever executed.
C23_ReadOnlyNeverWrites ==
    \A i \in Sessions :
        sessions[i].mount_type = "ro" =>
            /\ sessions[i].mkdirs = 0
            /\ sessions[i].test_dir \in {"None", "mount_point"}
            /\ sessions[i].setup = "returned" => sessions[i].test_dir = "mount_point"
            /\ \A k \in 1..Len(sessions[i].executed) :
                   sessions[i].executed[k] \notin WritingCases

\* a read-only session that ran its whole battery and was torn down
C23_Witness ==
    \E i \in Sessions :
        /\ sessions[i].mount_type = "ro"
        /\ sessions[i].test_dir = "mount_point"
        /\ Len(sessions[i].executed) = 4
        /\ sessions[i].teardowns = 1

\* C24: working-directory names are unique per session: any two distinct
\* read-write sessions, two sessions created one after the other by the same
\* process included, are given different working-directory names by setup().
C24_WorkingDirectoryNamesUnique ==
    \A i, j \in Sessions :
        (/\ i # j
         /\ sessions[i].test_time # 0
         /\ sessions[j].test_time # 0) => TestId(sessions[i]) # TestId(sessions[j])

\* the number of options of the list opts whose name is in names
OptionCount(opts, names) ==
    Cardinality({k \in 1..Len(opts) : opts[k][1] \in names})

CacheBounds == {"acregmin", "acregmax", "acdirmin", "acdirmax"}

\* C25: for every NFSMountOptions value, the options of the mount command
\* hold exactly one of the three attribute-cache forms: noac, actimeo=<s>,
\* or the four acregmin/acregmax/acdirmin/acdirmax bounds; the four bounds
\* appear iff neither noac nor actimeo is set, and an actimeo that is set,
\* whatever its value, is emitted as actimeo= when noac is off; exactly one of
\* soft and hard appears, and the mount mode is the last option.
C25_OneAttributeCacheForm ==
    \A i \in Sessions :
        LET s == sessions[i]
            o == s.mount_options
            opts == s.options
            noac == OptionCount(opts, {"noac"})
            actimeo == OptionCount(opts, {"actimeo"})
            bounds == OptionCount(opts, CacheBounds)
        IN  opts # <<>> =>
                /\ \/ noac = 1 /\ actimeo = 0 /\ bounds = 0
                   \/ noac = 0 /\ actimeo = 1 /\ bounds = 0
                   \/ noac = 0 /\ actimeo = 0 /\ bounds = 4
                /\ (bounds = 4) <=> (~o.noac /\ ~IsSet(o.actimeo))
                /\ (~o.noac /\ IsSet(o.actimeo)) =>
                       \E k \in 1..Len(opts) :
                           opts[k] = <<"actimeo", ToString(o.actimeo[1])>>
                /\ OptionCount(opts, {"soft", "hard"}) = 1
                /\ opts[Len(opts)] = <<s.mount_type>>

\* C26: the transport-protocol probe records a pass iff the mount-table
\* entry of the session's mount point shows the active transport, its proto
\* option, equal to the requested transport; an entry with another transport
\* is recorded as a failure, whatever else the line carries.
C26_TransportPassIffProtoMatches ==
    \A i \in Sessions :
        \A k \in ResultsOf(sessions[i], "transport_protocol") :
            sessions[i].results[k].passed <=>
                /\ sessions[i].obs.transport_table.read = "found"
                /\ sessions[i].obs.transport_table.entry.proto =
                       sessions[i].mount_options.transport

\* C27: the mount-options verification probe records a pass only if the
\* mount-table entry of the mount point carries NFS version 3 and the
\* requested proto; an entry with another version or transport is recorded
\* as a failure.
C27_OptionsPassOnlyIfMatching ==
    \A i \in Sessions :
        \A k \in ResultsOf(sessions[i], "mount_options_verification") :
            sessions[i].results[k].passed =>
                /\ sessions[i].obs.options_table.read = "found"
                /\ sessions[i].obs.options_table.entry.vers = "3"
                /\ sessions[i].obs.options_table.entry.proto =
                       sessions[i].mount_options.transport

\* the place of session s in its life: Unmounted before mount(), Mounting
\* while setup() provisions after mount() returned True, Mounted once
\* setup() returned, TornDown once teardown() was entered, Failed once
\* setup() raised
Phase(s) ==
    CASE s.setup = "raised" -> "Failed"
      [] s.setup # "raised" /\ s.teardowns > 0 -> "TornDown"
      [] s.setup = "returned" /\ s.teardowns = 0 -> "Mounted"
      [] s.setup = "none" /\ s.teardowns = 0 /\ s.mountRet = "True" -> "Mounting"
      [] OTHER -> "Unmounted"

PhaseSteps ==
    {<<"Unmounted", "Mounting">>, <<"Unmounted", "Failed">>,
     <<"Mounting", "Mounted">>, <<"Mounting", "Failed">>,
     <<"Mounted", "TornDown">>}

\* C28: every test case executes only while its session is Mounted: each
\* probe invocation happens after the session's setup() returned, on a mount
\* that mount() verified, and before its teardown and its unmount; a session
\* goes through Unmounted, Mounting, Mounted, TornDown, and becomes Failed
\* only from the mount step or the provisioning step.
C28_ProbesOnlyWhileMounted ==
    [][ \A i \in Sessions :
          /\ Len(sessions'[i].executed) > Len(sessions[i].executed) =>
                 /\ Phase(sessions[i]) = "Mounted"
                 /\ sessions[i].mountRet = "True"
                 /\ sessions[i].umountCmds = 0
                 /\ sessions'[i].umountCmds = 0
          /\ \/ Phase(sessions'[i]) = Phase(sessions[i])
             \/ <<Phase(sessions[i]), Phase(sessions'[i])>> \in PhaseSteps ]_vars

\* a read-write session that ran its ten test cases while Mounted and was
\* then torn down and unmounted
C28_Witness ==
    \E i \in Sessions :
        /\ Phase(sessions[i]) = "TornDown"
        /\ Len(sessions[i].executed) = 10
        /\ sessions[i].umountCmds = 1

\* the place of the call `step` in the calls t a locking probe made, 0 if
\* it was not made
CallNo(t, step) ==
    IF \E n \in 1..Len(t) : t[n] = step
    THEN CHOOSE n \in 1..Len(t) : t[n] = step
    ELSE 0

\* C29: in the advisory-locking probe the worker process is started only
\* after the main process acquired the exclusive lock, and the main process
\* releases the lock only after the worker was joined: the worker's whole
\* lock attempt happens while the lock is held.
C29_WorkerRunsUnderLock ==
    \A i \in Sessions :
        LET t == sessions[i].obs.lock.trace IN
        /\ CallNo(t, "start") > 0 =>
               /\ CallNo(t, "flock") > 0
               /\ CallNo(t, "flock") < CallNo(t, "start")
        /\ CallNo(t, "join") > 0 => CallNo(t, "start") < CallNo(t, "join")
        /\ CallNo(t, "unlock") > 0 =>
               /\ CallNo(t, "join") > 0
               /\ CallNo(t, "join") < CallNo(t, "unlock")

\* a locking probe that ran to its end with a worker that was refused
C29_Witness ==
    \E i \in Sessions :
        /\ sessions[i].obs.lock.worker = "would_block"
        /\ CallNo(sessions[i].obs.lock.trace, "unlock") > 0
        /\ ~sessions[i].obs.lock.held

\* C30: every probe invocation that returns normally has appended exactly
\* one result to the results of its session, on every path through the
\* probe (pass, assertion failure, expected refusal, caught error), and no
\* invocation appends more than one.
C30_OneResultPerInvocation ==
    [][ \A i \in Sessions :
          LET called == Len(sessions'[i].executed) - Len(sessions[i].executed)
              added == Len(sessions'[i].results) - Len(sessions[i].results)
          IN  /\ called \in {0, 1}
              /\ added \in {0, 1}
              /\ added <= called
              /\ (called = 1 /\ exc' = "none") => added = 1 ]_vars

\* a battery of ten invocations, one of which recorded a failure: ten results
C30_Witness ==
    \E i \in Sessions :
        /\ Len(sessions[i].executed) = 10
        /\ Len(sessions[i].results) = 10
        /\ \E k \in 1..10 : ~sessions[i].results[k].passed

\* ---------------------------------------------------------------------------
\* C31
\* ---------------------------------------------------------------------------

\* mount() returned False for session s although its mount command exited 0
MountedButRefused(s) == s.mountCmd = "rc0" /\ s.mountRet = "False"

\* C31 (as claimed): no mount is leaked by a failing mount(): when the process
\* has ended, every session whose OS mount command exited with status 0 and
\* whose mount() returned False (mount-table miss, mount-table query raising)
\* has had the OS unmount issued for its mount point.
C31_FailedMountIsUnmounted ==
    Ended =>
        \A i \in Sessions :
            MountedButRefused(sessions[i]) => sessions[i].umountCmds >= 1

\* ---------------------------------------------------------------------------
\* C32
\* ---------------------------------------------------------------------------

\* the advisory-locking probe of session s has returned: its result is recorded
NlmReturned(s) == ResultsOf(s, "nlm_basic_locking") # {}

\* C32 (as claimed): whenever the advisory-locking probe has returned, with a
\* pass or with a recorded failure, the exclusive lock taken by the main
\* process has been released and its file handle closed by the probe (held
\* and fd_open tell what the calls of the probe left behind; a handle left
\* open is then at the mercy of the runtime's finalizer).
C32_LockReleasedOnEveryPath ==
    \A i \in Sessions :
        NlmReturned(sessions[i]) =>
            /\ ~sessions[i].obs.lock.held
            /\ ~sessions[i].obs.lock.fd_open

\* ---------------------------------------------------------------------------
\* C33
\* ---------------------------------------------------------------------------

\* run_basic_tests has ended for session i, by its return or by an exception
\* that left the battery and passed the finally clause, and the runner of the
\* session is still the current one
RunEnded(i) ==
    /\ i = idx
    /\ sessions[i].setup = "returned"
    /\ sessions[i].teardowns >= 1
    /\ pc \in {"summary", "loop", "report", "done", "crashed"}

\* the number of results recorded by the sessions before session i
RECURSIVE ResultsBefore(_)
ResultsBefore(i) ==
    IF i <= 1 THEN 0 ELSE ResultsBefore(i - 1) + Len(sessions[i - 1].results)

\* the test_result entries the TextDocLogger received, in order
LoggedResults == SelectSeq(log_entries, LAMBDA e : e.type = "test_result")

\* the test_result entries received during session i
LoggedResultsOf(i) ==
    SubSeq(LoggedResults, ResultsBefore(i) + 1,
           ResultsBefore(i) + Len(sessions[i].results))

\* a result of the runner and an entry of the logger tell the same outcome
SameOutcome(r, e) ==
    /\ r.test = e.test_name
    /\ r.passed = e.passed
    /\ r.message = e.message

\* C33 (as claimed): when run_basic_tests has ended for a session, normally or
\* with an exception escaping the battery, the runner's all_results holds every
\* result recorded by the session's cases, in order, and matches one for one
\* the test_result entries the TextDocLogger received for the session.
C33_ResultStoresAgree ==
    \A i \in Sessions :
        RunEnded(i) =>
            /\ all_results = sessions[i].results
            /\ Len(LoggedResults) = ResultsBefore(i) + Len(sessions[i].results)
            /\ \A k \in 1..Len(all_results) :
                   SameOutcome(all_results[k], LoggedResultsOf(i)[k])

\* ---------------------------------------------------------------------------
\* C34
\* ---------------------------------------------------------------------------

\* the values of 'mount_type' an entry of STORAGE_CONFIG may carry: main()
\* passes the string on unchecked, and mount() appends it to the -o options,
\* so any mount option is accepted there ('defaults' mounts read-write)
ConfiguredModes == MountTypes \cup {"defaults"}

\* a run over one export of any configured mode
ModeInit ==
    /\ config \in [1..1 -> ConfiguredModes]
    /\ isRoot \in BOOLEAN
    /\ pc = "start"
    /\ sessions = <<>>
    /\ next_case = 1
    /\ exc = "none"
    /\ all_results = <<>>
    /\ text_logger = FALSE
    /\ log_entries = <<>>
    /\ summaries = 0
    /\ reportWritten = FALSE
    /\ printed = NoSummary
    /\ report = NoSummary
    /\ faults = 0

ModeSpec == ModeInit /\ [][Next]_vars

\* setup() returned after creating the working subdirectory of session s
CreatedDirectory(s) == s.setup = "returned" /\ s.mkdirs >= 1

\* run_basic_tests went into the read-write branch for session s
RanReadWriteBattery(s) ==
    /\ Len(s.executed) > Len(CommonCases)
    /\ s.executed[Len(CommonCases) + 1] = ReadWriteCases[1]

\* run_basic_tests went into the read-only branch for session s
RanReadOnlyBattery(s) ==
    /\ Len(s.executed) > Len(CommonCases)
    /\ s.executed[Len(CommonCases) + 1] = ReadOnlyCases[1]

\* teardown() of session s went for the removal of the working subdirectory
\* (it removes it unless the directory is already gone)
RemovalAttempted(s) == s.cleanup \in RemovalEnv

\* C34 (as claimed): for every value of the configured mount mode, a session
\* that was set up and torn down has created a working subdirectory iff it
\* ran the read-write battery iff teardown() went for the removal of that
\* subdirectory; no created working directory is left without a removal
\* attempt.
C34_ModeDecisionsAgree ==
    \A i \in Sessions :
        LET s == sessions[i] IN
            (s.setup = "returned" /\ s.teardowns >= 1) =>
                /\ RanReadWriteBattery(s) => CreatedDirectory(s)
                /\ RanReadOnlyBattery(s) => ~CreatedDirectory(s)
                /\ CreatedDirectory(s) <=> RemovalAttempted(s)
====
